---- MODULE Spec2Model ----
(***************************************************************************)
(* Model of src/src/utils/textComparison.ts: the plain-text comparison     *)
(* (compareDocuments) and the structural HTML comparison                   *)
(* (compareHtmlDocuments) with its highlighting, splice and summary passes.*)
(*                                                                         *)
(* Strings are sequences of one-character strings.  Markup is a sequence   *)
(* of tokens (tags and text characters), so that String.replace and        *)
(* outerHTML act on the serialized form as they do in the code.            *)
(***************************************************************************)
EXTENDS Integers, Sequences, FiniteSets, TLC

\* ------------------------------------------------------------------ bounds
MaxLeftLen == 4
MaxRightLen == 3
MaxLeftUnits == 2
MaxRightUnits == 1
MaxImageUnits == 2
MaxKindUnits == 1
MaxNodes == 2
MaxSegments == 2

\* ----------------------------------------------------------------- strings
Letters == {"a", "b"}
TextChars == Letters \cup {" "}

RECURSIVE StringsUpTo(_)
StringsUpTo(n) ==
  IF n = 0 THEN {<<>>}
  ELSE LET shorter == StringsUpTo(n - 1)
       IN shorter \cup {Append(s, c) : s \in {t \in shorter : Len(t) = n - 1}, c \in TextChars}

RECURSIVE Join(_)
Join(seqs) == IF seqs = <<>> THEN <<>> ELSE Head(seqs) \o Join(Tail(seqs))

Slice(s, from, count) == SubSeq(s, from, from + count - 1)

IsBlank(s) == \A i \in 1..Len(s) : s[i] = " "

\* ------------------------------------------------ diffWords (package diff)
\* Word tokens: maximal runs of word characters and maximal runs of whitespace.
RECURSIVE tokenize(_)
tokenize(s) ==
  IF s = <<>> THEN <<>>
  ELSE LET rest == tokenize(Tail(s))
       IN IF rest # <<>> /\ ((Head(rest)[1] = " ") <=> (s[1] = " "))
          THEN <<(<<s[1]>> \o Head(rest))>> \o Tail(rest)
          ELSE <<(<<s[1]>>)>> \o rest

\* wordDiff.equals with ignoreWhitespace: two whitespace tokens are equal.
equals(left, right) == left = right \/ (IsBlank(left) /\ IsBlank(right))

NoPath == [def |-> FALSE, newPos |-> -1, components |-> <<>>]

pushComponent(components, added, removed) ==
  LET n == Len(components)
  IN IF n > 0 /\ components[n].added = added /\ components[n].removed = removed
     THEN [components EXCEPT ![n].count = @ + 1]
     ELSE Append(components, [count |-> 1, added |-> added, removed |-> removed])

RECURSIVE commonRun(_, _, _, _)
commonRun(newString, oldString, newPos, oldPos) ==
  IF newPos + 1 < Len(newString) /\ oldPos + 1 < Len(oldString)
     /\ equals(newString[newPos + 2], oldString[oldPos + 2])
  THEN 1 + commonRun(newString, oldString, newPos + 1, oldPos + 1)
  ELSE 0

\* Positions are 0-based and name the last consumed token, as in the package.
extractCommon(basePath, newString, oldString, diagonalPath) ==
  LET commonCount == commonRun(newString, oldString, basePath.newPos,
                               basePath.newPos - diagonalPath)
  IN [def |-> TRUE,
      newPos |-> basePath.newPos + commonCount,
      components |-> IF commonCount > 0
                     THEN Append(basePath.components,
                                 [count |-> commonCount, added |-> FALSE, removed |-> FALSE])
                     ELSE basePath.components]

RECURSIVE valuesOf(_, _, _, _, _)
valuesOf(components, newString, oldString, newPos, oldPos) ==
  IF components = <<>> THEN <<>>
  ELSE LET c == Head(components)
       IN IF c.removed
          THEN <<[value |-> Join(Slice(oldString, oldPos + 1, c.count)),
                  added |-> FALSE, removed |-> TRUE]>>
               \o valuesOf(Tail(components), newString, oldString, newPos, oldPos + c.count)
          ELSE <<[value |-> Join(Slice(newString, newPos + 1, c.count)),
                  added |-> c.added, removed |-> FALSE]>>
               \o valuesOf(Tail(components), newString, oldString, newPos + c.count,
                           IF c.added THEN oldPos ELSE oldPos + c.count)

\* Removes are output before adds.
RECURSIVE removesFirst(_)
removesFirst(changes) ==
  IF Len(changes) < 2 THEN changes
  ELSE IF changes[1].added /\ changes[2].removed
       THEN <<changes[2]>> \o removesFirst(<<changes[1]>> \o Tail(Tail(changes)))
       ELSE <<changes[1]>> \o removesFirst(Tail(changes))

\* A trailing whitespace-only change is merged into the change before it.
mergeTerminal(changes) ==
  LET n == Len(changes)
  IN IF n > 1 /\ (changes[n].added \/ changes[n].removed) /\ IsBlank(changes[n].value)
     THEN [SubSeq(changes, 1, n - 1) EXCEPT ![n - 1].value = @ \o changes[n].value]
     ELSE changes

buildValues(components, newString, oldString) ==
  mergeTerminal(removesFirst(valuesOf(components, newString, oldString, 0, 0)))

RECURSIVE execEditLength(_, _, _, _, _)
execEditLength(bestPath, editLength, diagonalPath, newString, oldString) ==
  IF diagonalPath > editLength
  THEN execEditLength(bestPath, editLength + 1, -(editLength + 1), newString, oldString)
  ELSE
    LET addPath == bestPath[diagonalPath - 1]
        removePath == bestPath[diagonalPath + 1]
        oldPos == (IF removePath.def THEN removePath.newPos ELSE 0) - diagonalPath
        canAdd == addPath.def /\ addPath.newPos + 1 < Len(newString)
        canRemove == removePath.def /\ 0 <= oldPos /\ oldPos < Len(oldString)
        cleared == [bestPath EXCEPT ![diagonalPath - 1] = NoPath]
    IN IF ~canAdd /\ ~canRemove
       THEN execEditLength([cleared EXCEPT ![diagonalPath] = NoPath], editLength,
                           diagonalPath + 2, newString, oldString)
       ELSE
         LET basePath ==
               IF ~canAdd \/ (canRemove /\ addPath.newPos < removePath.newPos)
               THEN [removePath EXCEPT !.components = pushComponent(@, FALSE, TRUE)]
               ELSE [addPath EXCEPT !.newPos = @ + 1,
                                    !.components = pushComponent(@, TRUE, FALSE)]
             path == extractCommon(basePath, newString, oldString, diagonalPath)
         IN IF path.newPos + 1 >= Len(newString)
               /\ (path.newPos - diagonalPath) + 1 >= Len(oldString)
            THEN buildValues(path.components, newString, oldString)
            ELSE execEditLength([cleared EXCEPT ![diagonalPath] = path], editLength,
                                diagonalPath + 2, newString, oldString)

diffWords(oldStr, newStr) ==
  LET oldString == tokenize(oldStr)
      newString == tokenize(newStr)
      maxEditLength == Len(newString) + Len(oldString)
      seed == extractCommon([def |-> TRUE, newPos |-> -1, components |-> <<>>],
                            newString, oldString, 0)
  IN IF seed.newPos + 1 >= Len(newString) /\ seed.newPos + 1 >= Len(oldString)
     THEN <<[value |-> Join(newString), added |-> FALSE, removed |-> FALSE]>>
     ELSE execEditLength(
            [d \in -(maxEditLength + 2)..(maxEditLength + 2) |-> IF d = 0 THEN seed ELSE NoPath],
            1, -1, newString, oldString)

\* ------------------------------------------------------------------ markup
\* A document is a sequence of tokens:
\*   <<"txt", c>>                         one character of text
\*   <<"img", src, alt, width, quote>>    an image (void element)
\*   <<"open", tag, attr>>, <<"close", tag>>
\*   <<"label", name, word>>              the label div of a highlighted block
\* attr is the href of an a, the style of a div, span or p, and "" otherwise.
Txt(c) == <<"txt", c>>
Img(src, alt, width, quote) == <<"img", src, alt, width, quote>>
Open(tag, attr) == <<"open", tag, attr>>
Close(tag) == <<"close", tag>>
Text(s) == [i \in 1..Len(s) |-> Txt(s[i])]
El(tag, attr, inner) == <<Open(tag, attr)>> \o inner \o <<Close(tag)>>

IsTxt(t) == t[1] = "txt"
IsImg(t) == t[1] = "img"
IsOpen(t) == t[1] = "open"
IsClose(t) == t[1] = "close"
TagOf(t) == IF IsImg(t) THEN "img" ELSE IF IsOpen(t) \/ IsClose(t) THEN t[2] ELSE ""

\* Serialization (outerHTML, innerHTML) writes attribute values in double quotes.
SerializeToken(t) == IF IsImg(t) THEN Img(t[2], t[3], t[4], "dq") ELSE t
Serialize(html) == [i \in 1..Len(html) |-> SerializeToken(html[i])]

\* Index of the last token of the element that starts at index i.
RECURSIVE closeFrom(_, _, _)
closeFrom(html, j, depth) ==
  IF j > Len(html) THEN Len(html)
  ELSE IF IsOpen(html[j]) THEN closeFrom(html, j + 1, depth + 1)
  ELSE IF IsClose(html[j])
       THEN IF depth = 1 THEN j ELSE closeFrom(html, j + 1, depth - 1)
  ELSE closeFrom(html, j + 1, depth)

EndOf(html, i) == IF IsOpen(html[i]) THEN closeFrom(html, i, 0) ELSE i

outerHTML(html, i) == Serialize(SubSeq(html, i, EndOf(html, i)))

\* textContent: the characters of the text tokens, in document order.
RECURSIVE textContent(_)
textContent(html) ==
  IF html = <<>> THEN <<>>
  ELSE IF IsTxt(Head(html)) THEN <<Head(html)[2]>> \o textContent(Tail(html))
  ELSE textContent(Tail(html))

innerText(html, i) == textContent(SubSeq(html, i, EndOf(html, i)))

\* Indices of the elements whose tag is in tags, in document order (querySelectorAll).
RECURSIVE selectFrom(_, _, _)
selectFrom(html, tags, i) ==
  IF i > Len(html) THEN <<>>
  ELSE IF (IsOpen(html[i]) \/ IsImg(html[i])) /\ TagOf(html[i]) \in tags
       THEN <<i>> \o selectFrom(html, tags, i + 1)
       ELSE selectFrom(html, tags, i + 1)

querySelectorAll(html, tags) == selectFrom(html, tags, 1)

\* Number of descendants of the element at i whose tag is in tags.
countIn(html, i, tags) == Len(querySelectorAll(SubSeq(html, i + 1, EndOf(html, i)), tags))

firstRowCols(html, i) ==
  LET inner == SubSeq(html, i + 1, EndOf(html, i))
      rows == querySelectorAll(inner, {"tr"})
  IN IF rows = <<>> THEN 0 ELSE countIn(inner, rows[1], {"td", "th"})

substring20(s) == SubSeq(s, 1, IF Len(s) < 20 THEN Len(s) ELSE 20)

HeaderTags == {"h1", "h2", "h3", "h4", "h5", "h6"}
headerLevel(tag) ==
  CASE tag = "h1" -> 1 [] tag = "h2" -> 2 [] tag = "h3" -> 3
    [] tag = "h4" -> 4 [] tag = "h5" -> 5 [] OTHER -> 6
FormatTags == {"strong", "b", "em", "i", "u"}
StyledTags == {"div", "span", "p"}

\* The field at is the index of the element's first token in its document; it
\* identifies the unit in the formulas and is not read by the code's rules.
extractAllElements(html) ==
  LET sel(tags) == querySelectorAll(html, tags)
      images == sel({"img"})
      tables == sel({"table"})
      headers == sel(HeaderTags)
      lists == sel({"ul", "ol"})
      links == sel({"a"})
      blockquotes == sel({"blockquote"})
      codeBlocks == sel({"pre", "code"})
      formattedText == sel(FormatTags)
      styledAll == sel(StyledTags)
      styled == SelectSeq(styledAll, LAMBDA i : html[i][3] # "")
  IN [images |-> [k \in 1..Len(images) |->
        [type |-> "image", index |-> k - 1, at |-> images[k],
         src |-> html[images[k]][2], alt |-> html[images[k]][3],
         element |-> outerHTML(html, images[k])]],
      tables |-> [k \in 1..Len(tables) |->
        [type |-> "table", index |-> k - 1, at |-> tables[k],
         rows |-> countIn(html, tables[k], {"tr"}),
         cols |-> firstRowCols(html, tables[k]),
         element |-> outerHTML(html, tables[k]),
         id |-> <<"table", k - 1, substring20(innerText(html, tables[k]))>>]],
      headers |-> [k \in 1..Len(headers) |->
        [type |-> "header", at |-> headers[k],
         level |-> headerLevel(TagOf(html[headers[k]])),
         text |-> innerText(html, headers[k]),
         element |-> outerHTML(html, headers[k])]],
      lists |-> [k \in 1..Len(lists) |->
        [type |-> "list", at |-> lists[k],
         listType |-> TagOf(html[lists[k]]),
         items |-> countIn(html, lists[k], {"li"}),
         element |-> outerHTML(html, lists[k])]],
      links |-> [k \in 1..Len(links) |->
        [type |-> "link", at |-> links[k],
         href |-> html[links[k]][3],
         text |-> innerText(html, links[k]),
         element |-> outerHTML(html, links[k])]],
      blockquotes |-> [k \in 1..Len(blockquotes) |->
        [type |-> "blockquote", at |-> blockquotes[k],
         text |-> innerText(html, blockquotes[k]),
         element |-> outerHTML(html, blockquotes[k])]],
      codeBlocks |-> [k \in 1..Len(codeBlocks) |->
        [type |-> "code", at |-> codeBlocks[k],
         isBlock |-> TagOf(html[codeBlocks[k]]) = "pre",
         text |-> innerText(html, codeBlocks[k]),
         element |-> outerHTML(html, codeBlocks[k])]],
      formattedText |-> [k \in 1..Len(formattedText) |->
        [type |-> "formatted", at |-> formattedText[k],
         format |-> TagOf(html[formattedText[k]]),
         text |-> innerText(html, formattedText[k]),
         element |-> outerHTML(html, formattedText[k])]],
      styledElements |-> [k \in 1..Len(styled) |->
        [type |-> "styled", at |-> styled[k],
         tagName |-> TagOf(html[styled[k]]),
         style |-> html[styled[k]][3],
         text |-> innerText(html, styled[k]),
         element |-> outerHTML(html, styled[k])]]]

NoElements == extractAllElements(<<>>)

elementTypes == <<"images", "tables", "headers", "lists", "links", "blockquotes",
                  "codeBlocks", "formattedText", "styledElements">>

Some(others, P(_)) == \E k \in 1..Len(others) : P(others[k])

\* String.localeCompare gives 0 for equal strings and -1 or 1 otherwise.
absLocaleCompare(a, b) == IF a = b THEN 0 ELSE 1

\* The image rule with the comparison of the sources left out.
imageExistsNoSrc(element, otherElementsOfType) ==
  Some(otherElementsOfType, LAMBDA other :
    \/ (other.alt = element.alt /\ element.alt # "")
    \/ other.element = element.element)

imageExists(element, otherElementsOfType) ==
  Some(otherElementsOfType, LAMBDA other :
    \/ other.src = element.src
    \/ (other.alt = element.alt /\ element.alt # "")
    \/ other.element = element.element)

elementExistsInOther(element, otherElementsOfType) ==
  CASE element.type = "image" -> imageExists(element, otherElementsOfType)
    [] element.type = "table" ->
         Some(otherElementsOfType, LAMBDA other :
           \/ other.element = element.element
           \/ (other.rows = element.rows /\ other.cols = element.cols
               /\ absLocaleCompare(other.id, element.id) < 5))
    [] element.type = "header" ->
         Some(otherElementsOfType, LAMBDA other :
           other.text = element.text /\ other.level = element.level)
    [] element.type = "list" ->
         Some(otherElementsOfType, LAMBDA other :
           \/ other.element = element.element
           \/ (other.listType = element.listType /\ other.items = element.items))
    [] element.type = "link" ->
         Some(otherElementsOfType, LAMBDA other :
           other.href = element.href /\ other.text = element.text)
    [] element.type = "blockquote" ->
         Some(otherElementsOfType, LAMBDA other : other.text = element.text)
    [] element.type = "code" ->
         Some(otherElementsOfType, LAMBDA other :
           other.text = element.text /\ other.isBlock = element.isBlock)
    [] element.type = "formatted" ->
         Some(otherElementsOfType, LAMBDA other :
           other.text = element.text /\ other.format = element.format)
    [] element.type = "styled" ->
         Some(otherElementsOfType, LAMBDA other :
           \/ other.element = element.element
           \/ (other.style = element.style /\ other.text = element.text))
    [] OTHER ->
         Some(otherElementsOfType, LAMBDA other : other.element = element.element)

getElementLabel(type) ==
  CASE type = "image" -> "Image" [] type = "table" -> "Table"
    [] type = "header" -> "Header" [] type = "list" -> "List"
    [] type = "link" -> "Link" [] type = "blockquote" -> "Quote"
    [] type = "code" -> "Code" [] type = "formatted" -> "Formatting"
    [] type = "styled" -> "Style" [] type = "break" -> "Line Break"
    [] OTHER -> "Element"

DeleteBlock == "div.diff-delete-block"
InsertBlock == "div.diff-insert-block"
BlockOf(side) == IF side = "left" THEN DeleteBlock ELSE InsertBlock
WordOf(side) == IF side = "left" THEN "Removed" ELSE "Added"
Label(type, side) == <<"label", getElementLabel(type), WordOf(side)>>

\* The block put in place of an unmatched element.
highlightedElement(element, side) ==
  <<Open(BlockOf(side), "")>> \o <<Label(element.type, side)>>
    \o element.element \o <<Close(BlockOf(side))>>

\* First index at which pattern occurs in str, 0 if it does not.
RECURSIVE indexOfFrom(_, _, _)
indexOfFrom(str, pattern, i) ==
  IF i + Len(pattern) - 1 > Len(str) THEN 0
  ELSE IF SubSeq(str, i, i + Len(pattern) - 1) = pattern THEN i
  ELSE indexOfFrom(str, pattern, i + 1)

\* String.replace with a string pattern: the first occurrence only.
replace(str, pattern, replacement) ==
  LET i == indexOfFrom(str, pattern, 1)
  IN IF i = 0 THEN str
     ELSE SubSeq(str, 1, i - 1) \o replacement \o SubSeq(str, i + Len(pattern), Len(str))

RECURSIVE highlightElements(_, _, _, _)
highlightElements(modifiedHtml, elements, otherElementsOfType, side) ==
  IF elements = <<>> THEN modifiedHtml
  ELSE LET element == Head(elements)
           exists == elementExistsInOther(element, otherElementsOfType)
       IN highlightElements(
            IF ~exists
            THEN replace(modifiedHtml, element.element, highlightedElement(element, side))
            ELSE modifiedHtml,
            Tail(elements), otherElementsOfType, side)

RECURSIVE highlightTypes(_, _, _, _, _)
highlightTypes(modifiedHtml, types, ownElements, otherElements, side) ==
  IF types = <<>> THEN modifiedHtml
  ELSE highlightTypes(
         highlightElements(modifiedHtml, ownElements[Head(types)],
                           otherElements[Head(types)], side),
         Tail(types), ownElements, otherElements, side)

applyComprehensiveHighlighting(html, ownElements, otherElements, side) ==
  highlightTypes(html, elementTypes, ownElements, otherElements, side)

\* ------------------------------------------------------ extractTextFromHtml
\* The document without its img and table elements.
RECURSIVE removeImgTable(_, _)
removeImgTable(html, i) ==
  IF i > Len(html) THEN <<>>
  ELSE IF IsImg(html[i]) \/ (IsOpen(html[i]) /\ TagOf(html[i]) = "table")
       THEN removeImgTable(html, EndOf(html, i) + 1)
       ELSE <<html[i]>> \o removeImgTable(html, i + 1)

\* replace(/\s+/g, ' '): every run of whitespace becomes one space.
RECURSIVE collapse(_)
collapse(s) ==
  IF s = <<>> THEN <<>>
  ELSE IF s[1] = " " /\ Len(s) > 1 /\ s[2] = " " THEN collapse(Tail(s))
  ELSE <<s[1]>> \o collapse(Tail(s))

trim(s) ==
  LET a == IF s # <<>> /\ s[1] = " " THEN Tail(s) ELSE s
  IN IF a # <<>> /\ a[Len(a)] = " " THEN SubSeq(a, 1, Len(a) - 1) ELSE a

extractTextFromHtml(html) == trim(collapse(textContent(removeImgTable(html, 1))))

\* --------------------------------------------------------- getAllTextNodes
RejectTags == {"img", "table", InsertBlock, DeleteBlock}

\* Index of the last token of the run of text tokens that starts at i.
RECURSIVE runEnd(_, _)
runEnd(html, i) ==
  IF i < Len(html) /\ IsTxt(html[i + 1]) THEN runEnd(html, i + 1) ELSE i

\* The text nodes the tree walker accepts: not inside an image, a table or a
\* highlighted block, and not whitespace only.  open is the stack of open tags.
RECURSIVE walkText(_, _, _)
walkText(html, i, open) ==
  IF i > Len(html) THEN <<>>
  ELSE IF IsOpen(html[i]) THEN walkText(html, i + 1, <<TagOf(html[i])>> \o open)
  ELSE IF IsClose(html[i]) THEN walkText(html, i + 1, IF open = <<>> THEN open ELSE Tail(open))
  ELSE IF IsTxt(html[i])
       THEN LET j == runEnd(html, i)
                text == textContent(SubSeq(html, i, j))
                rejected == (\E k \in 1..Len(open) : open[k] \in RejectTags) \/ IsBlank(text)
            IN (IF rejected THEN <<>> ELSE <<[at |-> i, text |-> text]>>)
               \o walkText(html, j + 1, open)
  ELSE walkText(html, i + 1, open)

getAllTextNodes(html) == walkText(html, 1, <<>>)

\* ------------------------------------------------- escapeHtml and innerHTML
escapeChar(c) == IF c = "&" THEN <<"&", "a", "m", "p", ";">> ELSE <<c>>

escapeHtml(text) == Join([i \in 1..Len(text) |-> escapeChar(text[i])])

IsAmp(src, i) ==
  /\ i + 4 <= Len(src)
  /\ SubSeq(src, i, i + 4) = Text(<<"&", "a", "m", "p", ";">>)

\* Assigning innerHTML parses the string: character references are decoded.
RECURSIVE parseHtml(_, _)
parseHtml(src, i) ==
  IF i > Len(src) THEN <<>>
  ELSE IF IsAmp(src, i) THEN <<Txt("&")>> \o parseHtml(src, i + 5)
  ELSE <<src[i]>> \o parseHtml(src, i + 1)

InsertSpan == "span.diff-insert"
DeleteSpan == "span.diff-delete"

\* The markup appended to newContent for one piece of a text node.
piece(type, textToProcess) ==
  IF type = "added" THEN El(InsertSpan, "", Text(escapeHtml(textToProcess)))
  ELSE IF type = "removed" THEN El(DeleteSpan, "", Text(escapeHtml(textToProcess)))
  ELSE Text(escapeHtml(textToProcess))

\* The diff segments of one side.
RECURSIVE segmentsOf(_, _)
segmentsOf(ds, s) ==
  IF ds = <<>> THEN <<>>
  ELSE LET diff == Head(ds)
           rest == segmentsOf(Tail(ds), s)
       IN IF s = "left"
          THEN IF diff.removed THEN <<[text |-> diff.value, type |-> "removed"]>> \o rest
               ELSE IF ~diff.added THEN <<[text |-> diff.value, type |-> "normal"]>> \o rest
               ELSE rest
          ELSE IF diff.added THEN <<[text |-> diff.value, type |-> "added"]>> \o rest
               ELSE IF ~diff.removed THEN <<[text |-> diff.value, type |-> "normal"]>> \o rest
               ELSE rest

hasTextChanges(ds, s) ==
  \E i \in 1..Len(ds) : (s = "left" /\ ds[i].removed) \/ (s = "right" /\ ds[i].added)

\* The document with every replaced text node exchanged for its wrapper span.
RECURSIVE assemble(_, _, _, _)
assemble(html, nodes, repl, i) ==
  IF i > Len(html) THEN <<>>
  ELSE IF nodes # <<>> /\ Head(nodes).at = i
       THEN (IF Head(repl).wrap
             THEN El("span", "", Head(repl).content)
             ELSE SubSeq(html, i, i + Len(Head(nodes).text) - 1))
            \o assemble(html, Tail(nodes), Tail(repl), i + Len(Head(nodes).text))
       ELSE <<html[i]>> \o assemble(html, nodes, repl, i + 1)

\* ------------------------------------------- calculateComprehensiveSummary
existsInRight(element, rightElementsOfType) ==
  Some(rightElementsOfType, LAMBDA rightElement :
    CASE element.type = "image" ->
           rightElement.src = element.src \/ rightElement.alt = element.alt
      [] element.type = "header" ->
           rightElement.text = element.text /\ rightElement.level = element.level
      [] element.type = "link" ->
           rightElement.href = element.href /\ rightElement.text = element.text
      [] OTHER -> rightElement.element = element.element)

existsInLeft(element, leftElementsOfType) ==
  Some(leftElementsOfType, LAMBDA leftElement :
    CASE element.type = "image" ->
           leftElement.src = element.src \/ leftElement.alt = element.alt
      [] element.type = "header" ->
           leftElement.text = element.text /\ leftElement.level = element.level
      [] element.type = "link" ->
           leftElement.href = element.href /\ leftElement.text = element.text
      [] OTHER -> leftElement.element = element.element)

\* The iterations of the summary's loops, in the order the code runs them.
RECURSIVE structuralWork(_, _, _)
structuralWork(types, leftEls, rightEls) ==
  IF types = <<>> THEN <<>>
  ELSE [k \in 1..Len(leftEls[Head(types)]) |-> <<"left", Head(types), k>>]
       \o [k \in 1..Len(rightEls[Head(types)]) |-> <<"right", Head(types), k>>]
       \o structuralWork(Tail(types), leftEls, rightEls)

summaryWork(textDiffs, leftEls, rightEls) ==
  [i \in 1..Len(textDiffs) |-> <<"diff", "", i>>]
  \o structuralWork(elementTypes, leftEls, rightEls)

\* ------------------------------------------------------------------- state
VARIABLES
  mode,                 \* "text": compareDocuments, "html": compareHtmlDocuments,
                        \* "splice": applyTextDifferencesToHtml alone
  pc,                   \* position in the running function
  leftText, rightText,  \* the strings handed to diffWords
  diffs,                \* its result
  idx,                  \* index of the current forEach iteration
  leftDiffs, rightDiffs, summary,
  leftHtml, rightHtml, leftElements, rightElements,
  leftWithHighlights, rightWithHighlights,
  side, originalHtml, textNodes, diffSegments,
  segmentIndex, segmentOffset, nodeIndex, nodeOffset, newContent,
  replaced,             \* per finished text node: its new content, and whether it was replaced
  leftFinal, rightFinal,
  wrapped,              \* token positions (per side) put inside an inline diff span
  counted               \* units the summary counted as a structural change

textVars == <<leftText, rightText, diffs>>
resultVars == <<leftDiffs, rightDiffs>>
htmlVars == <<leftHtml, rightHtml, leftElements, rightElements,
              leftWithHighlights, rightWithHighlights>>
spliceVars == <<side, originalHtml, textNodes, diffSegments, segmentIndex, segmentOffset,
                nodeIndex, nodeOffset, newContent, replaced, wrapped>>
finalVars == <<leftFinal, rightFinal>>

vars == <<mode, pc, textVars, idx, resultVars, summary, htmlVars, spliceVars,
          finalVars, counted>>

ZeroSummary == [additions |-> 0, deletions |-> 0, changes |-> 0]

NoHtml ==
  /\ leftHtml = <<>> /\ rightHtml = <<>>
  /\ leftElements = NoElements /\ rightElements = NoElements
  /\ leftWithHighlights = <<>> /\ rightWithHighlights = <<>>
  /\ leftFinal = <<>> /\ rightFinal = <<>>
  /\ counted = {}

NoSplice ==
  /\ side = "left" /\ originalHtml = <<>> /\ textNodes = <<>> /\ diffSegments = <<>>
  /\ segmentIndex = 0 /\ segmentOffset = 0 /\ nodeIndex = 1 /\ nodeOffset = 0
  /\ newContent = <<>> /\ replaced = <<>> /\ wrapped = {}

\* ------------------------------------------------------- compareDocuments
InitText ==
  /\ mode = "text"
  /\ leftText \in StringsUpTo(MaxLeftLen)
  /\ rightText \in StringsUpTo(MaxRightLen)
  /\ diffs = diffWords(leftText, rightText)
  /\ idx = 1
  /\ leftDiffs = <<>>
  /\ rightDiffs = <<>>
  /\ summary = ZeroSummary
  /\ pc = "forEach"
  /\ NoHtml /\ NoSplice

DiffAdded ==
  /\ pc = "forEach" /\ idx <= Len(diffs) /\ diffs[idx].added
  /\ rightDiffs' = Append(rightDiffs, [type |-> "insert", content |-> diffs[idx].value])
  /\ summary' = [summary EXCEPT !.additions = @ + 1]
  /\ idx' = idx + 1
  /\ UNCHANGED <<mode, pc, textVars, leftDiffs, htmlVars, spliceVars, finalVars, counted>>

DiffRemoved ==
  /\ pc = "forEach" /\ idx <= Len(diffs) /\ ~diffs[idx].added /\ diffs[idx].removed
  /\ leftDiffs' = Append(leftDiffs, [type |-> "delete", content |-> diffs[idx].value])
  /\ summary' = [summary EXCEPT !.deletions = @ + 1]
  /\ idx' = idx + 1
  /\ UNCHANGED <<mode, pc, textVars, rightDiffs, htmlVars, spliceVars, finalVars, counted>>

\* The kept run pushed to the left sequence only.
DiffEqualLeftOnly ==
  /\ pc = "forEach" /\ idx <= Len(diffs) /\ ~diffs[idx].added /\ ~diffs[idx].removed
  /\ leftDiffs' = Append(leftDiffs, [type |-> "equal", content |-> diffs[idx].value])
  /\ idx' = idx + 1
  /\ UNCHANGED <<mode, pc, textVars, rightDiffs, summary, htmlVars, spliceVars, finalVars, counted>>

DiffEqual ==
  /\ pc = "forEach" /\ idx <= Len(diffs) /\ ~diffs[idx].added /\ ~diffs[idx].removed
  /\ leftDiffs' = Append(leftDiffs, [type |-> "equal", content |-> diffs[idx].value])
  /\ rightDiffs' = Append(rightDiffs, [type |-> "equal", content |-> diffs[idx].value])
  /\ idx' = idx + 1
  /\ UNCHANGED <<mode, pc, textVars, summary, htmlVars, spliceVars, finalVars, counted>>

ReturnText ==
  /\ pc = "forEach" /\ idx > Len(diffs)
  /\ summary' = [summary EXCEPT !.changes = summary.additions + summary.deletions]
  /\ pc' = "returned"
  /\ UNCHANGED <<mode, textVars, idx, resultVars, htmlVars, spliceVars, finalVars, counted>>

NextText == DiffAdded \/ DiffRemoved \/ DiffEqual \/ ReturnText

SpecText == InitText /\ [][NextText]_vars

\* --------------------------------------------------- compareHtmlDocuments
\* The structural units the input documents are built from.
TableOf(s) == El("table", "", El("tbody", "", El("tr", "", El("td", "", Text(s)))))

Units ==
  { Text(<<"a">>), Text(<<"b">>), Text(<<" ">>),
    <<Img("s1", "", "", "dq")>>, <<Img("s1", "x", "2", "dq")>>,
    <<Img("s2", "", "", "dq")>>, <<Img("s2", "x", "", "sq")>>,
    El("h1", "", Text(<<"a">>)), El("h2", "", Text(<<"a">>)),
    TableOf(<<"a">>), TableOf(<<"b">>),
    El("ul", "", El("li", "", Text(<<"a">>))), El("ul", "", El("li", "", Text(<<"b">>))),
    El("a", "u", Text(<<"a">>)), El("a", "v", Text(<<"a">>)),
    El("blockquote", "", Text(<<"a">>)), El("blockquote", "", El("p", "", Text(<<"a">>))),
    El("pre", "", Text(<<"a">>)), El("code", "", Text(<<"a">>)),
    El("b", "", Text(<<"a">>)), El("i", "", Text(<<"a">>)),
    El("span", "s", Text(<<"a">>)), El("p", "s", Text(<<"a">>)),
    El("p", "", Text(<<"a", " ", "b">>)),
    El("b", "", El("a", "u", Text(<<"b">>))) }

\* The units of the documents that compare images.
ImageUnits ==
  { <<Img("s1", "", "", "dq")>>, <<Img("s1", "x", "2", "dq")>>,
    <<Img("s2", "", "", "dq")>>, <<Img("s2", "x", "", "sq")>>,
    Text(<<"a">>) }

\* One unit of each kind the summary counts, and a second list with another
\* text, for the documents whose summary is followed together with the summary
\* of the text comparison.
KindUnits ==
  { <<Img("s1", "", "", "dq")>>,
    El("h1", "", Text(<<"a">>)),
    TableOf(<<"b">>),
    El("ul", "", El("li", "", Text(<<"a">>))), El("ul", "", El("li", "", Text(<<"b">>))),
    El("a", "u", Text(<<"a">>)),
    El("blockquote", "", Text(<<"a">>)),
    El("code", "", Text(<<"a">>)),
    El("b", "", Text(<<"a">>)),
    El("span", "s", Text(<<"a">>)) }

RECURSIVE DocsOf(_, _)
DocsOf(U, n) ==
  IF n = 0 THEN {<<>>}
  ELSE LET fewer == DocsOf(U, n - 1)
       IN fewer \cup {d \o u : d \in fewer, u \in U}

WithHighlights(s) == IF s = "left" THEN leftWithHighlights ELSE rightWithHighlights

StartHtml ==
  /\ mode = "html"
  /\ leftElements = NoElements /\ rightElements = NoElements
  /\ leftWithHighlights = <<>> /\ rightWithHighlights = <<>>
  /\ leftFinal = <<>> /\ rightFinal = <<>>
  /\ counted = {}
  /\ leftText = <<>> /\ rightText = <<>> /\ diffs = <<>>
  /\ idx = 1
  /\ leftDiffs = <<>> /\ rightDiffs = <<>>
  /\ summary = ZeroSummary
  /\ pc = "highlight"
  /\ NoSplice

InitHtml ==
  /\ leftHtml \in DocsOf(Units, MaxLeftUnits)
  /\ rightHtml \in DocsOf(Units, MaxRightUnits)
  /\ StartHtml

InitImages ==
  /\ leftHtml \in DocsOf(ImageUnits, MaxImageUnits)
  /\ rightHtml \in DocsOf(ImageUnits, MaxImageUnits)
  /\ StartHtml

InitKinds ==
  /\ leftHtml \in DocsOf(KindUnits, MaxKindUnits)
  /\ rightHtml \in DocsOf(KindUnits, MaxKindUnits)
  /\ StartHtml

\* Lines 51-56: extraction and structural highlighting of both documents.
Highlight ==
  /\ pc = "highlight"
  /\ leftElements' = extractAllElements(leftHtml)
  /\ rightElements' = extractAllElements(rightHtml)
  /\ leftWithHighlights' =
       applyComprehensiveHighlighting(leftHtml, leftElements', rightElements', "left")
  /\ rightWithHighlights' =
       applyComprehensiveHighlighting(rightHtml, rightElements', leftElements', "right")
  /\ pc' = "text"
  /\ UNCHANGED <<mode, textVars, idx, resultVars, summary, leftHtml, rightHtml,
                 spliceVars, finalVars, counted>>

\* Lines 59-63: the plain texts and their word diff.
TextDiff ==
  /\ pc = "text"
  /\ leftText' = extractTextFromHtml(leftHtml)
  /\ rightText' = extractTextFromHtml(rightHtml)
  /\ diffs' = diffWords(leftText', rightText')
  /\ pc' = "apply"
  /\ UNCHANGED <<mode, idx, resultVars, summary, htmlVars, spliceVars, finalVars, counted>>

\* What follows applyTextDifferencesToHtml for the current side, returning result.
Applied(result) ==
  /\ IF side = "left"
     THEN leftFinal' = result /\ UNCHANGED rightFinal
     ELSE rightFinal' = result /\ UNCHANGED leftFinal
  /\ side' = IF mode = "html" /\ side = "left" THEN "right" ELSE side
  /\ pc' = IF mode = "splice" THEN "returned"
           ELSE IF side = "left" THEN "apply" ELSE "summary"

\* Lines 386-392: no change for this side, the document is returned as it is.
SpliceSkip ==
  /\ pc = "apply"
  /\ ~hasTextChanges(diffs, side)
  /\ Applied(WithHighlights(side))
  /\ UNCHANGED <<mode, textVars, idx, resultVars, summary, htmlVars, originalHtml,
                 textNodes, diffSegments, segmentIndex, segmentOffset, nodeIndex,
                 nodeOffset, newContent, replaced, wrapped, counted>>

\* Lines 394-422: the text nodes and this side's segments.
SpliceBegin ==
  /\ pc = "apply"
  /\ hasTextChanges(diffs, side)
  /\ originalHtml' = WithHighlights(side)
  /\ textNodes' = getAllTextNodes(originalHtml')
  /\ diffSegments' = segmentsOf(diffs, side)
  /\ segmentIndex' = 0 /\ segmentOffset' = 0
  /\ nodeIndex' = 1 /\ nodeOffset' = 0
  /\ newContent' = <<>> /\ replaced' = <<>>
  /\ pc' = "splice"
  /\ UNCHANGED <<mode, textVars, idx, resultVars, summary, htmlVars, side, wrapped,
                 finalVars, counted>>

Min(a, b) == IF a < b THEN a ELSE b

InLoop ==
  /\ nodeIndex <= Len(textNodes)
  /\ nodeOffset < Len(textNodes[nodeIndex].text)
  /\ segmentIndex < Len(diffSegments)

\* Lines 429-455: one iteration of the while loop.
SpliceStep ==
  /\ pc = "splice" /\ InLoop
  /\ LET nodeText == textNodes[nodeIndex].text
         segment == diffSegments[segmentIndex + 1]
         remainingSegmentText == SubSeq(segment.text, segmentOffset + 1, Len(segment.text))
         remainingNodeText == SubSeq(nodeText, nodeOffset + 1, Len(nodeText))
         matchLength == Min(Len(remainingSegmentText), Len(remainingNodeText))
         textToProcess == SubSeq(nodeText, nodeOffset + 1, nodeOffset + matchLength)
     IN /\ newContent' = newContent \o piece(segment.type, textToProcess)
        /\ nodeOffset' = nodeOffset + matchLength
        /\ IF segmentOffset + matchLength >= Len(segment.text)
           THEN segmentIndex' = segmentIndex + 1 /\ segmentOffset' = 0
           ELSE segmentIndex' = segmentIndex /\ segmentOffset' = segmentOffset + matchLength
        /\ wrapped' = wrapped \cup
             (IF segment.type = "normal" THEN {}
              ELSE {<<side, textNodes[nodeIndex].at + nodeOffset + j>> :
                      j \in 0..(matchLength - 1)})
  /\ UNCHANGED <<mode, pc, textVars, idx, resultVars, summary, htmlVars, side,
                 originalHtml, textNodes, diffSegments, nodeIndex, replaced,
                 finalVars, counted>>

\* The node's replacement without the text the loop left over.
SpliceNodeEndDropsRest ==
  /\ pc = "splice" /\ nodeIndex <= Len(textNodes) /\ ~InLoop
  /\ replaced' = Append(replaced,
                        [wrap |-> newContent # Text(escapeHtml(textNodes[nodeIndex].text)),
                         content |-> parseHtml(newContent, 1)])
  /\ nodeIndex' = nodeIndex + 1
  /\ nodeOffset' = 0
  /\ newContent' = <<>>
  /\ UNCHANGED <<mode, pc, textVars, idx, resultVars, summary, htmlVars, side,
                 originalHtml, textNodes, diffSegments, segmentIndex, segmentOffset,
                 wrapped, finalVars, counted>>

\* Lines 457-467: the rest of the node, and the node's replacement.
SpliceNodeEnd ==
  /\ pc = "splice" /\ nodeIndex <= Len(textNodes) /\ ~InLoop
  /\ LET nodeText == textNodes[nodeIndex].text
         content == newContent \o
                    (IF nodeOffset < Len(nodeText)
                     THEN Text(escapeHtml(SubSeq(nodeText, nodeOffset + 1, Len(nodeText))))
                     ELSE <<>>)
     IN replaced' = Append(replaced, [wrap |-> content # Text(escapeHtml(nodeText)),
                                      content |-> parseHtml(content, 1)])
  /\ nodeIndex' = nodeIndex + 1
  /\ nodeOffset' = 0
  /\ newContent' = <<>>
  /\ UNCHANGED <<mode, pc, textVars, idx, resultVars, summary, htmlVars, side,
                 originalHtml, textNodes, diffSegments, segmentIndex, segmentOffset,
                 wrapped, finalVars, counted>>

\* Line 470: the document is serialized again.
SpliceReturn ==
  /\ pc = "splice" /\ nodeIndex > Len(textNodes)
  /\ Applied(Serialize(assemble(originalHtml, textNodes, replaced, 1)))
  /\ UNCHANGED <<mode, textVars, idx, resultVars, summary, htmlVars, originalHtml,
                 textNodes, diffSegments, segmentIndex, segmentOffset, nodeIndex,
                 nodeOffset, newContent, replaced, wrapped, counted>>

work == summaryWork(diffs, leftElements, rightElements)

\* Every run that is not a removal counted as an addition.
SumDiffCountsKept ==
  /\ pc = "summary" /\ idx <= Len(work) /\ work[idx][1] = "diff"
  /\ LET diff == diffs[work[idx][3]]
     IN summary' = [summary EXCEPT
                      !.additions = IF ~diff.removed THEN @ + 1 ELSE @,
                      !.deletions = IF diff.removed THEN @ + 1 ELSE @]
  /\ idx' = idx + 1
  /\ UNCHANGED <<mode, pc, textVars, resultVars, htmlVars, spliceVars, finalVars, counted>>

\* Lines 319-322: one text diff.
SumDiff ==
  /\ pc = "summary" /\ idx <= Len(work) /\ work[idx][1] = "diff"
  /\ LET diff == diffs[work[idx][3]]
     IN summary' = [summary EXCEPT
                      !.additions = IF diff.added THEN @ + 1 ELSE @,
                      !.deletions = IF diff.removed THEN @ + 1 ELSE @]
  /\ idx' = idx + 1
  /\ UNCHANGED <<mode, pc, textVars, resultVars, htmlVars, spliceVars, finalVars, counted>>

\* Lines 332-346: one element of the left document.
SumLeft ==
  /\ pc = "summary" /\ idx <= Len(work) /\ work[idx][1] = "left"
  /\ LET elementType == work[idx][2]
         element == leftElements[elementType][work[idx][3]]
     IN IF ~existsInRight(element, rightElements[elementType])
        THEN /\ summary' = [summary EXCEPT !.deletions = @ + 1]
             /\ counted' = counted \cup {work[idx]}
        ELSE UNCHANGED <<summary, counted>>
  /\ idx' = idx + 1
  /\ UNCHANGED <<mode, pc, textVars, resultVars, htmlVars, spliceVars, finalVars>>

\* Lines 349-363: one element of the right document.
SumRight ==
  /\ pc = "summary" /\ idx <= Len(work) /\ work[idx][1] = "right"
  /\ LET elementType == work[idx][2]
         element == rightElements[elementType][work[idx][3]]
     IN IF ~existsInLeft(element, leftElements[elementType])
        THEN /\ summary' = [summary EXCEPT !.additions = @ + 1]
             /\ counted' = counted \cup {work[idx]}
        ELSE UNCHANGED <<summary, counted>>
  /\ idx' = idx + 1
  /\ UNCHANGED <<mode, pc, textVars, resultVars, htmlVars, spliceVars, finalVars>>

\* The result returned with changes set to the additions alone.
ReturnHtmlAdditionsOnly ==
  /\ pc = "summary" /\ idx > Len(work)
  /\ summary' = [summary EXCEPT !.changes = summary.additions]
  /\ leftDiffs' = <<[type |-> "equal", content |-> leftFinal]>>
  /\ rightDiffs' = <<[type |-> "equal", content |-> rightFinal]>>
  /\ pc' = "returned"
  /\ UNCHANGED <<mode, textVars, idx, htmlVars, spliceVars, finalVars, counted>>

\* Lines 366-367 and 72-76: the summary is closed and the result returned.
ReturnHtml ==
  /\ pc = "summary" /\ idx > Len(work)
  /\ summary' = [summary EXCEPT !.changes = summary.additions + summary.deletions]
  /\ leftDiffs' = <<[type |-> "equal", content |-> leftFinal]>>
  /\ rightDiffs' = <<[type |-> "equal", content |-> rightFinal]>>
  /\ pc' = "returned"
  /\ UNCHANGED <<mode, textVars, idx, htmlVars, spliceVars, finalVars, counted>>

NextHtml ==
  \/ Highlight \/ TextDiff
  \/ SpliceSkip \/ SpliceBegin \/ SpliceStep \/ SpliceNodeEnd \/ SpliceReturn
  \/ SumDiff \/ SumLeft \/ SumRight \/ ReturnHtml

SpecHtml == InitHtml /\ [][NextHtml]_vars

SpecImages == InitImages /\ [][NextHtml]_vars

Next == NextText \/ NextHtml

Spec == (InitText \/ InitKinds) /\ [][Next]_vars

\* ------------------------------------- applyTextDifferencesToHtml on its own
\* The text nodes and the segments handed to the loop.  Node texts contain no
\* whitespace-only text, which the tree walker never returns.
NodeTexts == {<<"a">>, <<"&", "a", "a">>}
SegmentTexts == {<<>>, <<"a">>, <<"a", "a">>}

RECURSIVE SeqsUpTo(_, _)
SeqsUpTo(S, n) ==
  IF n = 0 THEN {<<>>}
  ELSE LET shorter == SeqsUpTo(S, n - 1)
       IN shorter \cup {Append(q, x) : q \in {t \in shorter : Len(t) = n - 1}, x \in S}

SegmentsOfSide(s) ==
  [text : SegmentTexts, type : {"normal", IF s = "left" THEN "removed" ELSE "added"}]

InitSplice ==
  /\ mode = "splice"
  /\ side \in {"left", "right"}
  /\ \E texts \in SeqsUpTo(NodeTexts, MaxNodes) :
       originalHtml = Join([k \in 1..Len(texts) |-> El("p", "", Text(texts[k]))])
  /\ textNodes = getAllTextNodes(originalHtml)
  /\ diffSegments \in SeqsUpTo(SegmentsOfSide(side), MaxSegments)
  /\ segmentIndex = 0 /\ segmentOffset = 0 /\ nodeIndex = 1 /\ nodeOffset = 0
  /\ newContent = <<>> /\ replaced = <<>> /\ wrapped = {}
  /\ pc = "splice"
  /\ leftText = <<>> /\ rightText = <<>> /\ diffs = <<>>
  /\ idx = 1
  /\ leftDiffs = <<>> /\ rightDiffs = <<>>
  /\ summary = ZeroSummary
  /\ NoHtml

NextSplice == SpliceStep \/ SpliceNodeEnd \/ SpliceReturn

SpecSplice == InitSplice /\ [][NextSplice]_vars

\* The loop is synchronous code: a step that can be taken is taken.
FairSplice == SpecSplice /\ WF_vars(NextSplice)

\* =================================================================== claims
Content(ds) == Join([i \in 1..Len(ds) |-> ds[i].content])

Returned(m) == mode = m /\ pc = "returned"

Sides == {"left", "right"}
HtmlOf(s) == IF s = "left" THEN leftHtml ELSE rightHtml
OwnElements(s) == IF s = "left" THEN leftElements ELSE rightElements
OtherElements(s) == IF s = "left" THEN rightElements ELSE leftElements
TypeNames == {elementTypes[i] : i \in 1..Len(elementTypes)}

\* The units of side s as <<s, type, k>>, the form the summary's work list uses.
UnitsOf(s) == UNION {{<<s, t, k>> : k \in 1..Len(OwnElements(s)[t])} : t \in TypeNames}
UnitAt(u) == OwnElements(u[1])[u[2]][u[3]]
Unmatched(u) == ~elementExistsInOther(UnitAt(u), OtherElements(u[1])[u[2]])

RemovedRuns(ds) == Cardinality({i \in 1..Len(ds) : ds[i].removed})
AddedRuns(ds) == Cardinality({i \in 1..Len(ds) : ds[i].added})

\* C1: the content of leftDiffs concatenated is the left string and the content
\* of rightDiffs concatenated is the right string, for every pair of strings.
C1_TextRoundTrip ==
  Returned("text") => Content(leftDiffs) = leftText /\ Content(rightDiffs) = rightText

\* C2: the returned summary of either comparison has changes = additions +
\* deletions, and no step of the accumulation lowers additions or deletions.
C2_SummaryAdditivity ==
  /\ [](pc = "returned" => summary.changes = summary.additions + summary.deletions)
  /\ [][/\ summary'.additions >= summary.additions
        /\ summary'.deletions >= summary.deletions]_vars

C2_Witness ==
  /\ Returned("html")
  /\ summary.additions > AddedRuns(diffs) /\ AddedRuns(diffs) > 0
  /\ summary.deletions > RemovedRuns(diffs) /\ RemovedRuns(diffs) > 0

\* C3: comparing a string with itself gives a zero summary and two sequences
\* of equal entries only, each with the string as its content.
C3_EqualInputs ==
  (Returned("text") /\ leftText = rightText) =>
    /\ summary = ZeroSummary
    /\ \A i \in 1..Len(leftDiffs) : leftDiffs[i].type = "equal"
    /\ \A i \in 1..Len(rightDiffs) : rightDiffs[i].type = "equal"
    /\ Content(leftDiffs) = leftText
    /\ Content(rightDiffs) = leftText

C3_Witness ==
  /\ Returned("text") /\ leftText = rightText
  /\ Len(tokenize(leftText)) >= 3

IsWrapperToken(t) ==
  t[1] = "label" \/ ((IsOpen(t) \/ IsClose(t)) /\ t[2] \in {DeleteBlock, InsertBlock})

\* Index in the highlighted document hl of the n-th token of the original one.
RECURSIVE originalAt(_, _, _)
originalAt(hl, j, n) ==
  IF j > Len(hl) THEN 0
  ELSE IF IsWrapperToken(hl[j]) THEN originalAt(hl, j + 1, n)
  ELSE IF n = 1 THEN j ELSE originalAt(hl, j + 1, n - 1)

\* The unit's own occurrence stands right behind the label of a block of its side.
DirectlyWrapped(u) ==
  LET hl == WithHighlights(u[1])
      j == originalAt(hl, 1, UnitAt(u).at)
  IN /\ j > 2
     /\ hl[j - 1] = Label(UnitAt(u).type, u[1])
     /\ hl[j - 2] = Open(BlockOf(u[1]), "")

SameSourceOnOtherSide(u) ==
  \E k \in 1..Len(OtherElements(u[1]).images) :
    OtherElements(u[1]).images[k].src = UnitAt(u).src

\* C5: an image whose source is the source of an image of the other document
\* is not wrapped as added or removed and is not counted by the summary.
C5_SameSourceImages ==
  (mode = "html" /\ pc # "highlight") =>
    \A s \in Sides : \A u \in UnitsOf(s) :
      (u[2] = "images" /\ SameSourceOnOtherSide(u)) =>
        ~DirectlyWrapped(u) /\ u \notin counted

C5_Witness ==
  /\ Returned("html")
  /\ \E u \in UnitsOf("left") : \E k \in 1..Len(rightElements.images) :
       /\ u[2] = "images"
       /\ rightElements.images[k].src = UnitAt(u).src
       /\ rightElements.images[k].alt # UnitAt(u).alt
       /\ rightElements.images[k].element # UnitAt(u).element
  /\ \E u \in UnitsOf("left") : u[2] = "images" /\ ~SameSourceOnOtherSide(u)

BothEmpty == Returned("html") /\ leftHtml = <<>> /\ rightHtml = <<>>

\* C6 as stated: two empty documents give empty leftDiffs and rightDiffs and a
\* zero summary.
C6_EmptyInputOriginal ==
  BothEmpty => leftDiffs = <<>> /\ rightDiffs = <<>> /\ summary = ZeroSummary

\* C6, amended: two empty documents give leftDiffs and rightDiffs of one equal
\* entry with empty content each, and a zero summary.
C6_EmptyInput ==
  BothEmpty =>
    /\ leftDiffs = <<[type |-> "equal", content |-> <<>>]>>
    /\ rightDiffs = <<[type |-> "equal", content |-> <<>>]>>
    /\ summary = ZeroSummary

C6_Witness == BothEmpty

\* C7: the structural part of the summary is the number of units the
\* highlighting finds no equivalent for, on each side.
C7_StructuralCounts ==
  Returned("html") =>
    /\ summary.deletions - RemovedRuns(diffs)
         = Cardinality({u \in UnitsOf("left") : Unmatched(u)})
    /\ summary.additions - AddedRuns(diffs)
         = Cardinality({u \in UnitsOf("right") : Unmatched(u)})

\* Number of text tokens among the first j tokens.
textOrdinal(html, j) == Len(textContent(SubSeq(html, 1, j)))

\* For every text token of the document, in order: whether it lies outside
\* every img and table.
RECURSIVE keptFlags(_, _, _)
keptFlags(html, i, tableEnd) ==
  IF i > Len(html) THEN <<>>
  ELSE IF IsTxt(html[i]) THEN <<i > tableEnd>> \o keptFlags(html, i + 1, tableEnd)
  ELSE IF IsOpen(html[i]) /\ TagOf(html[i]) = "table" /\ i > tableEnd
       THEN keptFlags(html, i + 1, EndOf(html, i))
  ELSE keptFlags(html, i + 1, tableEnd)

\* Position of each text character in the collapsed text, 0 for a dropped one.
RECURSIVE collapsedPositions(_, _, _, _, _)
collapsedPositions(chars, kept, o, pos, inSpaces) ==
  IF o > Len(chars) THEN <<>>
  ELSE IF ~kept[o] THEN <<0>> \o collapsedPositions(chars, kept, o + 1, pos, inSpaces)
  ELSE IF chars[o] = " " /\ inSpaces
       THEN <<pos>> \o collapsedPositions(chars, kept, o + 1, pos, TRUE)
  ELSE <<pos + 1>> \o collapsedPositions(chars, kept, o + 1, pos + 1, chars[o] = " ")

\* Position of each text character of the document in its plain text
\* (extractTextFromHtml), 0 for a character that is not part of it.
plainPositions(html) ==
  LET chars == textContent(html)
      c == collapsedPositions(chars, keptFlags(html, 1, 0), 1, 0, FALSE)
      collapsed == collapse(textContent(removeImgTable(html, 1)))
      n == Len(collapsed)
      lead == n > 0 /\ collapsed[1] = " "
      trail == n > 0 /\ collapsed[n] = " "
  IN [o \in 1..Len(chars) |->
        IF c[o] = 0 \/ (lead /\ c[o] = 1) \/ (trail /\ c[o] = n) THEN 0
        ELSE c[o] - (IF lead THEN 1 ELSE 0)]

\* Whether position p of the side's text lies in an added or removed segment.
RECURSIVE changedAt(_, _)
changedAt(segments, p) ==
  IF segments = <<>> THEN FALSE
  ELSE IF p <= Len(Head(segments).text) THEN Head(segments).type # "normal"
  ELSE changedAt(Tail(segments), p - Len(Head(segments).text))

\* Whether token i of the document of side s lies in a unit the summary counted.
InCounted(s, i) ==
  \E u \in counted :
    u[1] = s /\ UnitAt(u).at <= i /\ i <= EndOf(HtmlOf(s), UnitAt(u).at)

\* C4: a unit counted as a structural addition or deletion adds no word-level
\* run to the summary: no character of a counted unit lies in an added or
\* removed run of the word diff.
C4_NonDuplication ==
  (mode = "html" /\ pc = "returned") =>
    \A s \in Sides : \A i \in 1..Len(HtmlOf(s)) :
      (IsTxt(HtmlOf(s)[i]) /\ InCounted(s, i)) =>
        LET p == plainPositions(HtmlOf(s))[textOrdinal(HtmlOf(s), i)]
        IN p > 0 => ~changedAt(segmentsOf(diffs, s), p)

\* C8: every character put inside an inline insertion or removal span is a
\* character of an added or removed run, at the same position of the side's
\* plain text.
C8_OnlyChangedWrapped ==
  mode = "html" =>
    \A w \in wrapped :
      LET p == plainPositions(HtmlOf(w[1]))[textOrdinal(WithHighlights(w[1]), w[2])]
      IN p > 0 /\ changedAt(segmentsOf(diffs, w[1]), p)

\* C9: after the highlighting, a unit's own occurrence is wrapped in its side's
\* block with its kind's label exactly when the unit has no equivalent on the
\* other side.
C9_UnmatchedWrapped ==
  (mode = "html" /\ pc # "highlight") =>
    \A s \in Sides : \A u \in UnitsOf(s) : DirectlyWrapped(u) <=> Unmatched(u)

FinalOf(s) == IF s = "left" THEN leftFinal ELSE rightFinal

SpliceMeasure == segmentIndex + nodeOffset

\* C10: the splice loop ends and keeps the text: every iteration of the while
\* loop advances the node offset or the segment index, segmentIndex never
\* decreases and never passes the number of segments, the pieces emitted for a
\* node make up the node's text, and the returned document has the text of the
\* document passed in.
C10_SpliceKeepsText ==
  /\ [](mode = "splice" =>
         /\ segmentIndex <= Len(diffSegments)
         /\ (pc = "splice" /\ nodeIndex <= Len(textNodes)) =>
              textContent(parseHtml(newContent, 1))
                = SubSeq(textNodes[nodeIndex].text, 1, nodeOffset)
         /\ \A k \in 1..Len(replaced) :
              textContent(replaced[k].content) = textNodes[k].text
         /\ pc = "returned" =>
              textContent(FinalOf(side)) = textContent(originalHtml))
  /\ [][/\ segmentIndex' >= segmentIndex
        /\ (pc = "splice" /\ InLoop) => SpliceMeasure' > SpliceMeasure]_vars
  /\ <>(pc = "returned")

C10_Witness ==
  /\ Returned("splice")
  /\ Len(textNodes) = 2
  /\ \E k \in 1..Len(diffSegments) : diffSegments[k].text = <<>>
  /\ \E k \in 1..Len(replaced) : replaced[k].wrap
  /\ \E k \in 1..Len(textNodes) : \E i \in 1..Len(textNodes[k].text) :
       textNodes[k].text[i] = "&"
  /\ segmentIndex = Len(diffSegments)
====
